---------------------------- MODULE Spec2Model ----------------------------
(***************************************************************************)
(* Model of the 6502 instruction decoder of yaxpeax-6502 (src/src/lib.rs): *)
(* the Operand width function, the opcode classification table op_type and *)
(* the decode procedure decode_into, which reads an opcode byte from a     *)
(* forward-only byte cursor, classifies it, reads the operand bytes the    *)
(* addressing mode requires and writes the caller's instruction record.    *)
(*                                                                         *)
(* Enum values are tuples: <<"LDA">> or <<"Invalid", b>> for an Opcode,    *)
(* <<"Implied">> or <<"Absolute", v>> for an Operand.                      *)
(***************************************************************************)
EXTENDS Integers, Sequences, FiniteSets, TLC

(* ------------------------------ bounds --------------------------------- *)

\* Longest byte buffer handed to the decoder.
MaxLen == 3

\* How many entries of SampleTable may follow the first byte of a buffer.
NumSamples == 4

\* Number of u8 values (Arch::Word = u8, src/src/lib.rs:13).
ByteRange == 256

Bytes == 0 .. (ByteRange - 1)

\* Operand bytes of interest: zero, all ones, sign bit, and the spec's
\* scenario bytes; several are themselves opcodes (0x00, 0xA9, 0xFE).
SampleTable == <<0, 128, 169, 254, 66, 255, 1, 127>>

SampleBytes == { SampleTable[((i - 1) % Len(SampleTable)) + 1] : i \in 1 .. NumSamples }

\* Buffers: any first byte, sampled following bytes.
RECURSIVE Tails(_)
Tails(n) ==
  IF n = 0 THEN { <<>> }
  ELSE LET T == Tails(n - 1)
       IN T \cup { Append(t, b) : t \in { u \in T : Len(u) = n - 1 }, b \in SampleBytes }

AllWords == { <<>> } \cup { <<b>> \o t : b \in Bytes, t \in Tails(MaxLen - 1) }

(* --------------------------- the data model ---------------------------- *)

VARIABLES
  words,    \* the bytes behind the caller's cursor
  pos,      \* number of bytes the cursor has handed out
  inst,     \* the caller's Instruction record [opcode, operand]
  result,   \* outcome of the last decode_into call, "none" before any
  start,    \* history: cursor position at entry of the last decode_into
  prior,    \* history: the record at entry of the last decode_into
  log,      \* history: the outcomes seen by the calls made at position 0
  cls       \* the last op_type query: <<byte, result>>, <<>> before any

vars == <<words, pos, inst, result, start, prior, log, cls>>

Ok(op, operand) == <<"Ok", op, operand>>
Err(e) == <<"Err", e>>

Invalid(b) == <<"Invalid", b>>

\* impl Default for Instruction
InstructionDefault == [opcode |-> Invalid(255), operand |-> <<"Implied">>]

\* Operand::width with ZeroPageY given a three-byte payload.
width_wide(operand) ==
  CASE operand[1] \in {"Accumulator", "Implied"} -> 0
    [] operand[1] \in {"Immediate", "IndirectYIndexed", "XIndexedIndirect",
                       "Relative", "ZeroPage", "ZeroPageX"} -> 1
    [] operand[1] = "ZeroPageY" -> 3
    [] operand[1] \in {"Absolute", "AbsoluteX", "AbsoluteY", "Indirect"} -> 2

\* Operand::width
width(operand) ==
  CASE operand[1] \in {"Accumulator", "Implied"} -> 0
    [] operand[1] \in {"Immediate", "IndirectYIndexed", "XIndexedIndirect",
                       "Relative", "ZeroPage", "ZeroPageX", "ZeroPageY"} -> 1
    [] operand[1] \in {"Absolute", "AbsoluteX", "AbsoluteY", "Indirect"} -> 2

\* LengthedInstruction::len without the opcode byte.
len_operand_only(i) == width(i.operand) % 65536

\* LengthedInstruction::len; the unit is AddressDiff<u16>
len(i) == (width(i.operand) + 1) % 65536

\* The match of InstDecoder::op_type, one arm per table entry.
OpTable(opcode) ==
  CASE opcode =   0 -> Ok(<<"BRK">>, <<"Implied">>)
    [] opcode =   1 -> Ok(<<"ORA">>, <<"XIndexedIndirect", 0>>)
    [] opcode =   5 -> Ok(<<"ORA">>, <<"ZeroPage", 0>>)
    [] opcode =   6 -> Ok(<<"ASL">>, <<"ZeroPage", 0>>)
    [] opcode =   8 -> Ok(<<"PHP">>, <<"Implied">>)
    [] opcode =   9 -> Ok(<<"ORA">>, <<"Immediate", 0>>)
    [] opcode =  10 -> Ok(<<"ASL">>, <<"Accumulator">>)
    [] opcode =  13 -> Ok(<<"ORA">>, <<"Absolute", 0>>)
    [] opcode =  14 -> Ok(<<"ASL">>, <<"Absolute", 0>>)
    [] opcode =  16 -> Ok(<<"BPL">>, <<"Relative", 0>>)
    [] opcode =  17 -> Ok(<<"ORA">>, <<"IndirectYIndexed", 0>>)
    [] opcode =  21 -> Ok(<<"ORA">>, <<"ZeroPageX", 0>>)
    [] opcode =  22 -> Ok(<<"ASL">>, <<"ZeroPageX", 0>>)
    [] opcode =  24 -> Ok(<<"CLC">>, <<"Implied">>)
    [] opcode =  25 -> Ok(<<"ORA">>, <<"AbsoluteY", 0>>)
    [] opcode =  29 -> Ok(<<"ORA">>, <<"AbsoluteX", 0>>)
    [] opcode =  30 -> Ok(<<"ASL">>, <<"AbsoluteX", 0>>)
    [] opcode =  32 -> Ok(<<"JSR">>, <<"Absolute", 0>>)
    [] opcode =  33 -> Ok(<<"AND">>, <<"XIndexedIndirect", 0>>)
    [] opcode =  36 -> Ok(<<"BIT">>, <<"ZeroPage", 0>>)
    [] opcode =  37 -> Ok(<<"AND">>, <<"ZeroPage", 0>>)
    [] opcode =  38 -> Ok(<<"ROL">>, <<"ZeroPage", 0>>)
    [] opcode =  40 -> Ok(<<"PLP">>, <<"Implied">>)
    [] opcode =  41 -> Ok(<<"AND">>, <<"Immediate", 0>>)
    [] opcode =  42 -> Ok(<<"ROL">>, <<"Accumulator">>)
    [] opcode =  44 -> Ok(<<"BIT">>, <<"Absolute", 0>>)
    [] opcode =  45 -> Ok(<<"AND">>, <<"Absolute", 0>>)
    [] opcode =  46 -> Ok(<<"ROL">>, <<"Absolute", 0>>)
    [] opcode =  48 -> Ok(<<"BMI">>, <<"Relative", 0>>)
    [] opcode =  49 -> Ok(<<"AND">>, <<"IndirectYIndexed", 0>>)
    [] opcode =  53 -> Ok(<<"AND">>, <<"ZeroPageX", 0>>)
    [] opcode =  54 -> Ok(<<"ROL">>, <<"ZeroPageX", 0>>)
    [] opcode =  56 -> Ok(<<"SEC">>, <<"Implied">>)
    [] opcode =  57 -> Ok(<<"AND">>, <<"AbsoluteY", 0>>)
    [] opcode =  61 -> Ok(<<"AND">>, <<"AbsoluteX", 0>>)
    [] opcode =  62 -> Ok(<<"ROL">>, <<"AbsoluteX", 0>>)
    [] opcode =  64 -> Ok(<<"RTI">>, <<"Implied">>)
    [] opcode =  65 -> Ok(<<"EOR">>, <<"XIndexedIndirect", 0>>)
    [] opcode =  69 -> Ok(<<"EOR">>, <<"ZeroPage", 0>>)
    [] opcode =  70 -> Ok(<<"LSR">>, <<"ZeroPage", 0>>)
    [] opcode =  72 -> Ok(<<"PHA">>, <<"Implied">>)
    [] opcode =  73 -> Ok(<<"EOR">>, <<"Immediate", 0>>)
    [] opcode =  74 -> Ok(<<"LSR">>, <<"Accumulator">>)
    [] opcode =  76 -> Ok(<<"JMP">>, <<"Absolute", 0>>)
    [] opcode =  77 -> Ok(<<"EOR">>, <<"Absolute", 0>>)
    [] opcode =  78 -> Ok(<<"LSR">>, <<"Absolute", 0>>)
    [] opcode =  80 -> Ok(<<"BVC">>, <<"Relative", 0>>)
    [] opcode =  81 -> Ok(<<"EOR">>, <<"IndirectYIndexed", 0>>)
    [] opcode =  85 -> Ok(<<"EOR">>, <<"ZeroPageX", 0>>)
    [] opcode =  86 -> Ok(<<"LSR">>, <<"ZeroPageX", 0>>)
    [] opcode =  88 -> Ok(<<"CLI">>, <<"Implied">>)
    [] opcode =  89 -> Ok(<<"EOR">>, <<"AbsoluteY", 0>>)
    [] opcode =  93 -> Ok(<<"EOR">>, <<"AbsoluteX", 0>>)
    [] opcode =  94 -> Ok(<<"LSR">>, <<"AbsoluteX", 0>>)
    [] opcode =  96 -> Ok(<<"RTS">>, <<"Implied">>)
    [] opcode =  97 -> Ok(<<"ADC">>, <<"XIndexedIndirect", 0>>)
    [] opcode = 101 -> Ok(<<"ADC">>, <<"ZeroPage", 0>>)
    [] opcode = 102 -> Ok(<<"ROR">>, <<"ZeroPage", 0>>)
    [] opcode = 104 -> Ok(<<"PLA">>, <<"Implied">>)
    [] opcode = 105 -> Ok(<<"ADC">>, <<"Immediate", 0>>)
    [] opcode = 106 -> Ok(<<"ROR">>, <<"Accumulator">>)
    [] opcode = 108 -> Ok(<<"JMP">>, <<"Indirect", 0>>)
    [] opcode = 109 -> Ok(<<"ADC">>, <<"Absolute", 0>>)
    [] opcode = 110 -> Ok(<<"ROR">>, <<"Absolute", 0>>)
    [] opcode = 112 -> Ok(<<"BVS">>, <<"Relative", 0>>)
    [] opcode = 113 -> Ok(<<"ADC">>, <<"IndirectYIndexed", 0>>)
    [] opcode = 117 -> Ok(<<"ADC">>, <<"ZeroPageX", 0>>)
    [] opcode = 118 -> Ok(<<"ROR">>, <<"ZeroPageX", 0>>)
    [] opcode = 120 -> Ok(<<"SEI">>, <<"Implied">>)
    [] opcode = 121 -> Ok(<<"ADC">>, <<"AbsoluteY", 0>>)
    [] opcode = 125 -> Ok(<<"ADC">>, <<"AbsoluteX", 0>>)
    [] opcode = 126 -> Ok(<<"ROR">>, <<"AbsoluteX", 0>>)
    [] opcode = 129 -> Ok(<<"STA">>, <<"XIndexedIndirect", 0>>)
    [] opcode = 132 -> Ok(<<"STY">>, <<"ZeroPage", 0>>)
    [] opcode = 133 -> Ok(<<"STA">>, <<"ZeroPage", 0>>)
    [] opcode = 134 -> Ok(<<"STX">>, <<"ZeroPage", 0>>)
    [] opcode = 136 -> Ok(<<"DEY">>, <<"Implied">>)
    [] opcode = 138 -> Ok(<<"TXA">>, <<"Implied">>)
    [] opcode = 140 -> Ok(<<"STY">>, <<"Absolute", 0>>)
    [] opcode = 141 -> Ok(<<"STA">>, <<"Absolute", 0>>)
    [] opcode = 142 -> Ok(<<"STX">>, <<"Absolute", 0>>)
    [] opcode = 144 -> Ok(<<"BCC">>, <<"Relative", 0>>)
    [] opcode = 145 -> Ok(<<"STA">>, <<"IndirectYIndexed", 0>>)
    [] opcode = 148 -> Ok(<<"STY">>, <<"ZeroPageX", 0>>)
    [] opcode = 149 -> Ok(<<"STA">>, <<"ZeroPageX", 0>>)
    [] opcode = 150 -> Ok(<<"STX">>, <<"ZeroPageY", 0>>)
    [] opcode = 152 -> Ok(<<"TYA">>, <<"Implied">>)
    [] opcode = 153 -> Ok(<<"STA">>, <<"AbsoluteY", 0>>)
    [] opcode = 154 -> Ok(<<"TXS">>, <<"Implied">>)
    [] opcode = 157 -> Ok(<<"STA">>, <<"AbsoluteX", 0>>)
    [] opcode = 160 -> Ok(<<"LDY">>, <<"Immediate", 0>>)
    [] opcode = 161 -> Ok(<<"LDA">>, <<"XIndexedIndirect", 0>>)
    [] opcode = 162 -> Ok(<<"LDX">>, <<"Immediate", 0>>)
    [] opcode = 164 -> Ok(<<"LDY">>, <<"ZeroPage", 0>>)
    [] opcode = 165 -> Ok(<<"LDA">>, <<"ZeroPage", 0>>)
    [] opcode = 166 -> Ok(<<"LDX">>, <<"ZeroPage", 0>>)
    [] opcode = 168 -> Ok(<<"TAY">>, <<"Implied">>)
    [] opcode = 169 -> Ok(<<"LDA">>, <<"Immediate", 0>>)
    [] opcode = 170 -> Ok(<<"TAX">>, <<"Implied">>)
    [] opcode = 172 -> Ok(<<"LDY">>, <<"Absolute", 0>>)
    [] opcode = 173 -> Ok(<<"LDA">>, <<"Absolute", 0>>)
    [] opcode = 174 -> Ok(<<"LDX">>, <<"Absolute", 0>>)
    [] opcode = 176 -> Ok(<<"BCS">>, <<"Relative", 0>>)
    [] opcode = 177 -> Ok(<<"LDA">>, <<"IndirectYIndexed", 0>>)
    [] opcode = 180 -> Ok(<<"LDY">>, <<"ZeroPageX", 0>>)
    [] opcode = 181 -> Ok(<<"LDA">>, <<"ZeroPageX", 0>>)
    [] opcode = 182 -> Ok(<<"LDX">>, <<"ZeroPageY", 0>>)
    [] opcode = 184 -> Ok(<<"CLV">>, <<"Implied">>)
    [] opcode = 185 -> Ok(<<"LDA">>, <<"AbsoluteY", 0>>)
    [] opcode = 186 -> Ok(<<"TSX">>, <<"Implied">>)
    [] opcode = 188 -> Ok(<<"LDY">>, <<"AbsoluteX", 0>>)
    [] opcode = 189 -> Ok(<<"LDA">>, <<"AbsoluteX", 0>>)
    [] opcode = 190 -> Ok(<<"LDX">>, <<"AbsoluteY", 0>>)
    [] opcode = 192 -> Ok(<<"CPY">>, <<"Immediate", 0>>)
    [] opcode = 193 -> Ok(<<"CMP">>, <<"XIndexedIndirect", 0>>)
    [] opcode = 196 -> Ok(<<"CPY">>, <<"ZeroPage", 0>>)
    [] opcode = 197 -> Ok(<<"CMP">>, <<"ZeroPage", 0>>)
    [] opcode = 198 -> Ok(<<"DEC">>, <<"ZeroPage", 0>>)
    [] opcode = 200 -> Ok(<<"INY">>, <<"Implied">>)
    [] opcode = 201 -> Ok(<<"CMP">>, <<"Immediate", 0>>)
    [] opcode = 202 -> Ok(<<"DEX">>, <<"Implied">>)
    [] opcode = 204 -> Ok(<<"CPY">>, <<"Absolute", 0>>)
    [] opcode = 205 -> Ok(<<"CMP">>, <<"Absolute", 0>>)
    [] opcode = 206 -> Ok(<<"DEC">>, <<"Absolute", 0>>)
    [] opcode = 208 -> Ok(<<"BNE">>, <<"Relative", 0>>)
    [] opcode = 209 -> Ok(<<"CMP">>, <<"IndirectYIndexed", 0>>)
    [] opcode = 213 -> Ok(<<"CMP">>, <<"ZeroPageX", 0>>)
    [] opcode = 214 -> Ok(<<"DEC">>, <<"ZeroPageX", 0>>)
    [] opcode = 216 -> Ok(<<"CLD">>, <<"Implied">>)
    [] opcode = 217 -> Ok(<<"CMP">>, <<"AbsoluteY", 0>>)
    [] opcode = 221 -> Ok(<<"CMP">>, <<"AbsoluteX", 0>>)
    [] opcode = 222 -> Ok(<<"DEC">>, <<"AbsoluteX", 0>>)
    [] opcode = 224 -> Ok(<<"CPX">>, <<"Immediate", 0>>)
    [] opcode = 225 -> Ok(<<"SBC">>, <<"XIndexedIndirect", 0>>)
    [] opcode = 228 -> Ok(<<"CPX">>, <<"ZeroPage", 0>>)
    [] opcode = 229 -> Ok(<<"SBC">>, <<"ZeroPage", 0>>)
    [] opcode = 230 -> Ok(<<"INC">>, <<"ZeroPage", 0>>)
    [] opcode = 232 -> Ok(<<"INX">>, <<"Implied">>)
    [] opcode = 233 -> Ok(<<"SBC">>, <<"Immediate", 0>>)
    [] opcode = 234 -> Ok(<<"NOP">>, <<"Implied">>)
    [] opcode = 236 -> Ok(<<"CPX">>, <<"Absolute", 0>>)
    [] opcode = 237 -> Ok(<<"SBC">>, <<"Absolute", 0>>)
    [] opcode = 238 -> Ok(<<"INC">>, <<"Absolute", 0>>)
    [] opcode = 240 -> Ok(<<"BEQ">>, <<"Relative", 0>>)
    [] opcode = 241 -> Ok(<<"SBC">>, <<"IndirectYIndexed", 0>>)
    [] opcode = 245 -> Ok(<<"SBC">>, <<"ZeroPageX", 0>>)
    [] opcode = 246 -> Ok(<<"INC">>, <<"ZeroPageX", 0>>)
    [] opcode = 248 -> Ok(<<"SED">>, <<"Implied">>)
    [] opcode = 249 -> Ok(<<"SBC">>, <<"AbsoluteY", 0>>)
    [] opcode = 253 -> Ok(<<"SBC">>, <<"AbsoluteX", 0>>)
    [] opcode = 254 -> Ok(<<"INC">>, <<"AbsoluteX", 0>>)
    [] OTHER -> Err("InvalidOpcode")

\* InstDecoder::op_type with the undocumented NOP #imm (0x80) recognised.
op_type_undocumented(opcode) ==
  IF opcode = 128 THEN Ok(<<"NOP">>, <<"Immediate", 0>>) ELSE OpTable(opcode)

\* InstDecoder::op_type
op_type(opcode) == OpTable(opcode)

\* Reader::next on the cursor: the next byte and the advanced position, or
\* a ReadError once every byte has been handed out.
next(w, p) ==
  IF p < Len(w) THEN <<"Ok", w[p + 1], p + 1>> ELSE <<"Err", "ReadError">>

\* impl From<ReadError> for DecodeError, mapping to the wrong kind.
from_invalid_operand(e) == "InvalidOperand"

\* impl From<ReadError> for DecodeError
from(e) == "ExhaustedInput"

\* u16::from_be_bytes in place of from_le_bytes.
from_be_bytes(byte_lo, byte_hi) == (byte_hi + 256 * byte_lo) % 65536

\* u16::from_le_bytes([byte_lo, byte_hi])
from_le_bytes(byte_lo, byte_hi) == (byte_lo + 256 * byte_hi) % 65536

\* The map_err closure resetting the whole record.
invalid_opcode_reset(i, opcode) == [opcode |-> Invalid(opcode), operand |-> <<"Implied">>]

\* The map_err closure of decode_into: record the unrecognised byte.
invalid_opcode(i, opcode) == [i EXCEPT !.opcode = Invalid(opcode)]

\* The payload rewrite with the ZeroPageX and Relative arms mistyped.
rewrite_mistyped(op, op_byte, op_word) ==
  CASE op[1] = "Accumulator" -> <<"Accumulator">>
    [] op[1] = "Implied" -> <<"Implied">>
    [] op[1] = "ZeroPageX" -> <<"ZeroPage", op_byte>>
    [] op[1] = "Relative" -> <<"Relative", IF op_byte >= 128 THEN op_byte - 128 ELSE op_byte>>
    [] op[1] \in {"Immediate", "IndirectYIndexed", "XIndexedIndirect",
                  "ZeroPage", "ZeroPageY"} -> <<op[1], op_byte>>
    [] op[1] \in {"Absolute", "AbsoluteX", "AbsoluteY", "Indirect"} -> <<op[1], op_word>>

\* The take_mut::take closure of decode_into: the payload rewrite.
rewrite(op, op_byte, op_word) ==
  CASE op[1] = "Accumulator" -> <<"Accumulator">>
    [] op[1] = "Implied" -> <<"Implied">>
    [] op[1] \in {"Immediate", "IndirectYIndexed", "XIndexedIndirect",
                  "Relative", "ZeroPage", "ZeroPageX", "ZeroPageY"} -> <<op[1], op_byte>>
    [] op[1] \in {"Absolute", "AbsoluteX", "AbsoluteY", "Indirect"} -> <<op[1], op_word>>

\* The final assignments with `inst.operand = operand` missing for operands
\* without payload.
commit_stale_operand(i, op, operand) ==
  IF Len(operand) = 1 THEN [i EXCEPT !.opcode = op]
  ELSE [i EXCEPT !.opcode = op, !.operand = operand]

\* The final assignments with `inst.opcode = op_type` missing.
commit_stale_opcode(i, op, operand) == [i EXCEPT !.operand = operand]

\* The two final assignments of decode_into.
commit(i, op, operand) == [i EXCEPT !.opcode = op, !.operand = operand]

\* The operand read of decode_into (match operand.width()): the bytes read,
\* the cursor position afterwards and the status "Ok", a DecodeError, or
\* "Panic" for the unreachable!() arm.
read_operand(w, p, wd) ==
  CASE wd = 0 -> [status |-> "Ok", pos |-> p, op_byte |-> 0, op_word |-> 0]
    [] wd = 1 ->
         LET b == next(w, p)
         IN IF b[1] = "Err"
            THEN [status |-> from(b[2]), pos |-> p, op_byte |-> 0, op_word |-> 0]
            ELSE [status |-> "Ok", pos |-> b[3], op_byte |-> b[2], op_word |-> 0]
    [] wd = 2 ->
         LET lo == next(w, p)
         IN IF lo[1] = "Err"
            THEN [status |-> from(lo[2]), pos |-> p, op_byte |-> 0, op_word |-> 0]
            ELSE LET hi == next(w, lo[3])
                 IN IF hi[1] = "Err"
                    THEN [status |-> from(hi[2]), pos |-> lo[3], op_byte |-> 0, op_word |-> 0]
                    ELSE [status |-> "Ok", pos |-> hi[3], op_byte |-> 0,
                          op_word |-> from_le_bytes(lo[2], hi[2])]
    [] OTHER -> [status |-> "Panic", pos |-> p, op_byte |-> 0, op_word |-> 0]

\* decode_into assigning inst.opcode as soon as the opcode is classified,
\* before the operand bytes are read.
decode_into_eager(i, w, p) ==
  LET first == next(w, p)
  IN IF first[1] = "Err"
     THEN [inst |-> i, pos |-> p, result |-> from(first[2])]
     ELSE LET opcode == first[2]
              t == op_type(opcode)
          IN IF t[1] = "Err"
             THEN [inst |-> invalid_opcode(i, opcode), pos |-> first[3], result |-> t[2]]
             ELSE LET rd == read_operand(w, first[3], width(t[3]))
                  IN IF rd.status # "Ok"
                     THEN [inst |-> [i EXCEPT !.opcode = t[2]], pos |-> rd.pos,
                           result |-> rd.status]
                     ELSE [inst |-> commit(i, t[2], rewrite(t[3], rd.op_byte, rd.op_word)),
                           pos |-> rd.pos, result |-> "Ok"]

\* Decoder::decode_into on record i and a cursor at position p of w: the
\* record, the cursor position and the returned status afterwards.
decode_into(i, w, p) ==
  LET first == next(w, p)
  IN IF first[1] = "Err"
     THEN [inst |-> i, pos |-> p, result |-> from(first[2])]
     ELSE LET opcode == first[2]
              t == op_type(opcode)
          IN IF t[1] = "Err"
             THEN [inst |-> invalid_opcode(i, opcode), pos |-> first[3], result |-> t[2]]
             ELSE LET rd == read_operand(w, first[3], width(t[3]))
                  IN IF rd.status # "Ok"
                     THEN [inst |-> i, pos |-> rd.pos, result |-> rd.status]
                     ELSE [inst |-> commit(i, t[2], rewrite(t[3], rd.op_byte, rd.op_word)),
                           pos |-> rd.pos, result |-> "Ok"]

(* ------------------------------ actions -------------------------------- *)

\* What a caller observes of one call: the status, and on success the
\* decoded instruction and the number of bytes consumed.
Outcome(r, p) ==
  IF r.result = "Ok" THEN <<"Ok", r.inst.opcode, r.inst.operand, r.pos - p>>
  ELSE <<r.result>>

\* One call of decode_into on the caller's record and cursor.
DecodeInto ==
  /\ result # "Panic"
  /\ LET r == decode_into(inst, words, pos)
     IN /\ inst' = r.inst
        /\ pos' = r.pos
        /\ result' = r.result
        /\ start' = pos
        /\ prior' = inst
        /\ log' = IF pos = 0 THEN log \cup { Outcome(r, pos) } ELSE log
  /\ UNCHANGED <<words, cls>>

\* The caller opens a new cursor over the same buffer at offset p (a
\* disassembler resynchronising, or decoding the same bytes again); the
\* instruction record is kept.
NewReader(p) ==
  /\ result \notin {"none", "Panic"}
  /\ p # pos
  /\ pos' = p
  /\ start' = p
  /\ result' = "none"
  /\ UNCHANGED <<words, inst, prior, log, cls>>

\* One call of op_type on byte b.
OpType(b) ==
  /\ cls' = <<b, op_type(b)>>
  /\ UNCHANGED <<words, pos, inst, result, start, prior, log>>

Init ==
  /\ words \in AllWords
  /\ pos = 0
  /\ inst = InstructionDefault
  /\ result = "none"
  /\ start = 0
  /\ prior = InstructionDefault
  /\ log = {}
  /\ cls = <<>>

Next ==
  \/ DecodeInto
  \/ \E p \in 0 .. Len(words) : NewReader(p)

Spec == Init /\ [][Next]_vars

InitClassify ==
  /\ words = <<>>
  /\ pos = 0
  /\ inst = InstructionDefault
  /\ result = "none"
  /\ start = 0
  /\ prior = InstructionDefault
  /\ log = {}
  /\ cls = <<>>

NextClassify == \E b \in Bytes : OpType(b)

SpecClassify == InitClassify /\ [][NextClassify]_vars

TypeOK ==
  /\ pos \in 0 .. Len(words)
  /\ result \in {"none", "Ok", "ExhaustedInput", "InvalidOpcode", "InvalidOperand", "Panic"}

(* ------------------------- claims: vocabulary -------------------------- *)

\* A decode_into call has returned on the current cursor.
Done == result \notin {"none", "Panic"}

\* The opcode byte the last call read, and its classification.
OpcodeRead == start < Len(words)
Classified == op_type(words[start + 1])

\* Payload widths as tabulated in the specification's data model.
SpecWidth(tag) ==
  CASE tag \in {"Implied", "Accumulator"} -> 0
    [] tag \in {"Immediate", "ZeroPage", "ZeroPageX", "ZeroPageY", "Relative",
                "IndirectYIndexed", "XIndexedIndirect"} -> 1
    [] tag \in {"Absolute", "AbsoluteX", "AbsoluteY", "Indirect"} -> 2
    [] OTHER -> -1

\* The documented 6502 opcodes, by instruction group of the reference chart.
Rows == { 32 * k : k \in 0 .. 7 }
Documented ==
  \* ORA AND EOR ADC STA LDA CMP SBC in their eight modes, no STA #imm
  ({ r + c : r \in Rows, c \in {1, 5, 9, 13, 17, 21, 25, 29} } \ {137})
  \* ASL ROL LSR ROR
  \cup { r + c : r \in {0, 32, 64, 96}, c \in {6, 10, 14, 22, 30} }
  \* DEC INC
  \cup { r + c : r \in {192, 224}, c \in {6, 14, 22, 30} }
  \* BPL BMI BVC BVS BCC BCS BNE BEQ
  \cup { r + 16 : r \in Rows }
  \* BRK PHP CLC PLP SEC RTI PHA CLI RTS PLA SEI DEY TXA TYA TXS TAY TAX CLV
  \* TSX INY DEX CLD INX NOP SED
  \cup {0, 8, 24, 40, 56, 64, 72, 88, 96, 104, 120, 136, 138, 152, 154, 168,
        170, 184, 186, 200, 202, 216, 232, 234, 248}
  \* JSR BIT JMP
  \cup {32, 36, 44, 76, 108}
  \* STY STX
  \cup {132, 140, 148, 134, 142, 150}
  \* LDY LDX
  \cup {160, 164, 172, 180, 188, 162, 166, 174, 182, 190}
  \* CPY CPX
  \cup {192, 196, 204, 224, 228, 236}

(* ------------------------------- claims -------------------------------- *)

\* C1: after every successful decode_into the instruction's len() is
\* 1 + width(operand), one of 1, 2, 3, and the cursor has advanced by exactly
\* that many bytes.
C1_WidthLaw ==
  result = "Ok" =>
    /\ len(inst) = 1 + SpecWidth(inst.operand[1])
    /\ len(inst) \in {1, 2, 3}
    /\ pos - start = len(inst)

C1_Witness == result = "Ok" /\ pos - start = 3 /\ len(inst) = 3

\* C2: op_type maps every byte either to an (operation, operand) pair whose
\* operand has a zero placeholder payload and the tabulated width, or to
\* InvalidOpcode; the recognised bytes are exactly the 151 documented
\* opcodes, and no byte with low nibble 3, 7, B or F is recognised.
C2_ClassifyTable ==
  /\ Cardinality({ b \in Bytes : op_type(b)[1] = "Ok" }) = 151
  /\ Cardinality({ b \in Bytes : op_type(b)[1] = "Err" }) = 105
  /\ cls # <<>> =>
       LET b == cls[1]
           r == cls[2]
       IN /\ (r[1] = "Ok") <=> (b \in Documented)
          /\ r[1] = "Ok" =>
               /\ width(r[3]) = SpecWidth(r[3][1])
               /\ width(r[3]) \in {0, 1, 2}
               /\ Len(r[3]) = IF width(r[3]) = 0 THEN 1 ELSE 2
               /\ Len(r[3]) = 2 => r[3][2] = 0
          /\ r[1] # "Ok" => r = Err("InvalidOpcode")
          /\ (b % 16) \in {3, 7, 11, 15} => r[1] # "Ok"

C2_Witness == cls # <<>> /\ cls[1] = 108 /\ cls[2] = Ok(<<"JMP">>, <<"Indirect", 0>>)

\* C3: decoding [opcode, lo, hi] for an opcode with a two-byte operand
\* succeeds and yields the payload lo + 256 * hi.
C3_LittleEndian ==
  (Done /\ start + 3 <= Len(words) /\ Classified[1] = "Ok"
        /\ Classified[3][1] \in {"Absolute", "AbsoluteX", "AbsoluteY", "Indirect"}) =>
    /\ result = "Ok"
    /\ inst.operand[2] = words[start + 2] + 256 * words[start + 3]

C3_Witness ==
  /\ result = "Ok"
  /\ words = <<76, 0, 128>>
  /\ inst = [opcode |-> <<"JMP">>, operand |-> <<"Absolute", 32768>>]

\* C4: decode_into fails with ExhaustedInput exactly when no opcode byte is
\* left, or the opcode is recognised and fewer bytes follow it than its
\* operand width.
C4_Exhaustion ==
  Done =>
    ((result = "ExhaustedInput") <=>
       \/ ~OpcodeRead
       \/ /\ Classified[1] = "Ok"
          /\ Len(words) - (start + 1) < SpecWidth(Classified[3][1]))

C4_Witness ==
  /\ result = "ExhaustedInput"
  /\ start = 0
  /\ Len(words) = 2
  /\ SpecWidth(Classified[3][1]) = 2

\* C5: when the first byte read is not a recognised opcode, decode_into
\* fails with InvalidOpcode, sets the operation to Invalid(that byte), leaves
\* the operand as it was before the call and consumes exactly one byte.
C5_InvalidOpcode ==
  /\ (Done /\ OpcodeRead /\ Classified[1] # "Ok") =>
       /\ result = "InvalidOpcode"
       /\ inst.opcode = Invalid(words[start + 1])
       /\ inst.operand = prior.operand
       /\ pos = start + 1
  /\ result = "InvalidOpcode" => (OpcodeRead /\ Classified[1] # "Ok")

C5_Witness ==
  /\ result = "InvalidOpcode"
  /\ prior.operand[1] # "Implied"
  /\ prior.opcode[1] # "Invalid"
  /\ inst.opcode = Invalid(128)

\* C6: every call made on the same byte sequence has the same outcome
\* (error kind, or operation, operand and bytes consumed), whatever the
\* record held before, and two successful calls whose opcode bytes are equal
\* yield the same operation and operand tag whatever bytes follow.
C6_Deterministic ==
  /\ Cardinality(log) <= 1
  /\ (result = "Ok" /\ words[start + 1] = words[1]) =>
       \A o \in log : /\ o[1] \in {"Ok", "ExhaustedInput"}
                      /\ o[1] = "Ok" => /\ o[2] = inst.opcode
                                        /\ o[3][1] = inst.operand[1]
                                        /\ o[4] = pos - start

C6_Witness ==
  /\ result = "Ok"
  /\ start = 0
  /\ prior # InstructionDefault
  /\ prior # inst
  /\ Cardinality(log) = 1

\* C7: a successful decode_into yields the operation and the operand tag
\* that op_type gives for the opcode byte, and for a one-byte operand the
\* payload is the byte read, unmodified.
C7_TagFixed ==
  result = "Ok" =>
    /\ Classified[1] = "Ok"
    /\ inst.opcode = Classified[2]
    /\ inst.operand[1] = Classified[3][1]
    /\ Len(inst.operand) = Len(Classified[3])
    /\ SpecWidth(inst.operand[1]) = 1 => inst.operand[2] = words[start + 2]

C7_Witness ==
  /\ result = "Ok"
  /\ inst = [opcode |-> <<"BCC">>, operand |-> <<"Relative", 254>>]

\* C8: decode_into ends in success, ExhaustedInput or InvalidOpcode only:
\* never InvalidOperand and never the unreachable width arm, the width of a
\* classified operand being 0, 1 or 2.
C8_NoInvalidOperand ==
  /\ result \in {"none", "Ok", "ExhaustedInput", "InvalidOpcode"}
  /\ (result # "none" /\ OpcodeRead /\ Classified[1] = "Ok") =>
       width(Classified[3]) \in {0, 1, 2}

C8_Witness == result = "Ok" /\ inst.operand[1] = "ZeroPageY" /\ pos - start = 2

\* C9: when decode_into fails with ExhaustedInput, at the opcode read or
\* part-way through the operand bytes, the record is as it was before the
\* call, and the bytes read stay consumed.
C9_ExhaustedFrame ==
  result = "ExhaustedInput" =>
    /\ inst = prior
    /\ pos = Len(words)
    /\ pos >= start

C9_Witness ==
  /\ result = "ExhaustedInput"
  /\ pos = start + 2
  /\ prior.opcode[1] # "Invalid"

\* C10: a successful decode_into on a reused record leaves it equal to what
\* the same bytes give on a fresh default record; no Invalid operation and
\* no stale operand from earlier calls survives.
C10_NoCarryOver ==
  result = "Ok" =>
    /\ inst = decode_into(InstructionDefault, words, start).inst
    /\ inst.opcode[1] # "Invalid"
    /\ inst.opcode = Classified[2]

C10_Witness ==
  /\ result = "Ok"
  /\ prior.opcode[1] = "Invalid"
  /\ prior.opcode[2] # 255
  /\ prior.operand[1] # "Implied"
  /\ inst.operand[1] = "Implied"

=============================================================================
